---- MODULE Spec2Model ----
(***************************************************************************)
(* Model of the GKE service-accounts initializer                           *)
(* (src/cmd/gke-serviceaccounts-initializer/main.go): the Pod informer's   *)
(* AddFunc handler and the pure functions it is built from; and of the     *)
(* Deployment variant (src/main.go): initializeDeployment.                 *)
(*                                                                         *)
(* Text that the code takes apart (the annotation value, the paths built   *)
(* from it) is a sequence of tokens: "/" and "." are the two characters    *)
(* path.Clean gives a meaning to, every other token stands for a run of    *)
(* ordinary characters.  Text that is only compared (object names, keys,   *)
(* initializer names) is a TLA+ string.                                    *)
(***************************************************************************)
EXTENDS Integers, Sequences, FiniteSets, TLC

VARIABLES
    call,     \* one direct application of a pure function: op, arg, ret, out
    tmpl,     \* the pod template (annotations, containers) the pods are created from
    api,      \* the API server's stored object for every pod name
    store,    \* the keys in the informer's local store (already delivered as Add)
    running,  \* the process is alive
    busy,     \* the handler's Patch request in flight, the informer goroutine blocked on it
    last,     \* per pod: the record of the handler's most recent run on it
    hist,     \* per pod: counters over the whole run
    restarts  \* how many times the process was (re)started by its supervisor

vars == <<call, tmpl, api, store, running, busy, last, hist, restarts>>

----------------------------------------------------------------------------
(* Bounds *)

MaxNameLen == 2      \* tokens in an annotation value
MaxPending == 2      \* entries in a pending-initializer queue
MaxContainers == 2   \* containers in a pod
MaxRestarts == 1     \* process restarts

----------------------------------------------------------------------------
(* Constants of the program *)

annotation == "iam.cloud.google.com/service-account"
initializerName == "serviceaccounts.cloud.google.com"
secretMountPath == <<"/", "var", "/", "run", "/", "secrets", "/", "gcp", "/">>
serviceAccountFile == <<"key", ".", "json">>
credentialsEnv == "GOOGLE_APPLICATION_CREDENTIALS"
volumePrefix == <<"gcp-">>

otherInitializer == "a.b.c"

----------------------------------------------------------------------------
(* path.Clean and path.Join of the Go standard library, on token sequences *)

\* the element of a one-element set: {F(x) : x \in {e}} evaluates e once, where
\* a LET would evaluate it again at every use
Only(S) == CHOOSE x \in S : TRUE

Slash == "/"
Dot == "."
DotDot == <<Dot, Dot>>

RECURSIVE SplitFrom(_, _, _)
\* the "/"-separated elements of s from position i on, cur being the element in progress
SplitFrom(s, i, cur) ==
    IF i > Len(s) THEN <<cur>>
    ELSE IF s[i] = Slash THEN <<cur>> \o SplitFrom(s, i + 1, <<>>)
    ELSE SplitFrom(s, i + 1, Append(cur, s[i]))

Split(s) == SplitFrom(s, 1, <<>>)

Rooted(s) == Len(s) > 0 /\ s[1] = Slash

RECURSIVE CleanElems(_, _, _, _)
\* path.Clean's pass over the elements: drop empty and ".", let ".." cancel the
\* element before it, drop ".." at the root, keep a leading ".." of a relative path
CleanElems(elems, i, stack, rooted) ==
    IF i > Len(elems) THEN stack
    ELSE LET e == elems[i] IN
         IF e = <<>> \/ e = <<Dot>> THEN CleanElems(elems, i + 1, stack, rooted)
         ELSE IF e = DotDot THEN
              IF Len(stack) > 0 /\ stack[Len(stack)] # DotDot
              THEN CleanElems(elems, i + 1, SubSeq(stack, 1, Len(stack) - 1), rooted)
              ELSE IF rooted THEN CleanElems(elems, i + 1, stack, rooted)
              ELSE CleanElems(elems, i + 1, Append(stack, e), rooted)
         ELSE CleanElems(elems, i + 1, Append(stack, e), rooted)

RECURSIVE JoinElems(_, _)
JoinElems(elems, i) ==
    IF i > Len(elems) THEN <<>>
    ELSE IF i = Len(elems) THEN elems[i]
    ELSE elems[i] \o <<Slash>> \o JoinElems(elems, i + 1)

\* path.Clean, given the elements of s
CleanOf(elems, rooted) ==
    LET body == JoinElems(CleanElems(elems, 1, <<>>, rooted), 1)
        out  == IF rooted THEN <<Slash>> \o body ELSE body
    IN IF out = <<>> THEN <<Dot>> ELSE out

Clean(s) == Only({CleanOf(elems, Rooted(t)) : <<t, elems>> \in {<<s, Split(s)>>}})

\* path.Join(a, b): empty elements are ignored, the rest joined by "/" and cleaned
PathJoin(a, b) ==
    IF a = <<>> /\ b = <<>> THEN <<>>
    ELSE IF a = <<>> THEN Clean(b)
    ELSE IF b = <<>> THEN Clean(a)
    ELSE Clean(a \o <<Slash>> \o b)

\* fmt.Sprintf("gcp-%s", name)
VolName(name) == volumePrefix \o name

MountPath(name) == PathJoin(secretMountPath, name)

KeyPath(name) ==
    Only({PathJoin(mountPath, serviceAccountFile) : mountPath \in {MountPath(name)}})

----------------------------------------------------------------------------
(* The objects.  A Go pointer, map or slice whose nil-ness the code reads   *)
(* is a record with a "nil" flag; a nil one carries the empty value.        *)

NoPending == [nil |-> TRUE, elems |-> <<>>]
PendingOf(elems) == [nil |-> FALSE, elems |-> elems]

NoInitializers == [nil |-> TRUE, pending |-> NoPending]
InitializersOf(pending) == [nil |-> FALSE, pending |-> pending]

NoAnnotations == [nil |-> TRUE, m |-> <<>>]
AnnotationsOf(m) == [nil |-> FALSE, m |-> m]

NoSecret == [nil |-> TRUE, secretName |-> <<>>, items |-> <<>>]

NilPod ==
    [nil |-> TRUE, name |-> "", annotations |-> NoAnnotations,
     initializers |-> NoInitializers, containers |-> <<>>, volumes |-> <<>>]

MakePod(name, ann, inits, containers, volumes) ==
    [nil |-> FALSE, name |-> name, annotations |-> ann,
     initializers |-> inits, containers |-> containers, volumes |-> volumes]

\* corev1.Volume{Name, VolumeSource{Secret{SecretName, Items{{Key, Path}}}}}
SecretVolume(serviceAccountName) ==
    [name |-> VolName(serviceAccountName),
     secret |-> [nil |-> FALSE, secretName |-> serviceAccountName,
                 items |-> <<[key |-> serviceAccountFile, path |-> serviceAccountFile]>>]]

\* corev1.VolumeMount{Name, MountPath, SubPath: "", ReadOnly: true}
SecretMount(serviceAccountName) ==
    [name |-> VolName(serviceAccountName), mountPath |-> MountPath(serviceAccountName),
     subPath |-> <<>>, readOnly |-> TRUE]

\* corev1.EnvVar{Name: "GOOGLE_APPLICATION_CREDENTIALS", Value: keyPath}
SecretEnv(serviceAccountName) ==
    [name |-> credentialsEnv, value |-> KeyPath(serviceAccountName)]

----------------------------------------------------------------------------
(* The pure functions of main.go *)

\* ObjectMeta.GetInitializers(): the Initializers pointer of the object
GetInitializers(pod) == pod.initializers

\* faulty variant: the gate accepts this component's name at any position of the queue
needsInitialization_AnyPosition(pod) ==
    /\ ~pod.initializers.nil
    /\ \E i \in DOMAIN pod.initializers.pending.elems :
           pod.initializers.pending.elems[i] = initializerName

\* needsInitialization: initializers != nil && len(Pending) > 0 && Pending[0].Name == initializerName
needsInitialization(pod) ==
    LET initializers == GetInitializers(pod) IN
    /\ ~initializers.nil
    /\ Len(initializers.pending.elems) > 0
    /\ initializers.pending.elems[1] = initializerName

\* faulty variant: the pod returned is the argument itself, not a copy of it
clonePod_Alias(pod, deepCopyFails) ==
    IF deepCopyFails THEN [err |-> TRUE, pod |-> NilPod, fresh |-> TRUE]
    ELSE [err |-> FALSE, pod |-> pod, fresh |-> FALSE]

\* clonePod: the deep copy, or (nil, error) when Scheme.DeepCopy reports one
\* (fresh: the pod returned is an object of its own, not the argument)
clonePod(pod, deepCopyFails) ==
    IF deepCopyFails THEN [err |-> TRUE, pod |-> NilPod, fresh |-> TRUE]
    ELSE [err |-> FALSE, pod |-> pod, fresh |-> TRUE]

\* append(p[:0], p[1:]...): the backing array after the elements 2..n were copied
\* onto the positions 1..n-1 (its last position keeps its old content)
ShiftLeft(elems) ==
    [i \in 1..Len(elems) |-> IF i < Len(elems) THEN elems[i + 1] ELSE elems[i]]

\* faulty variant: the last entry removed leaves an empty, non-nil queue
removeSelfPendingInitializer_EmptyNotNil(pod) ==
    IF pod.nil THEN [panic |-> TRUE, pod |-> pod]
    ELSE IF pod.initializers.nil \/ pod.initializers.pending.elems = <<>>
    THEN [panic |-> FALSE, pod |-> pod]
    ELSE [panic |-> FALSE,
          pod |-> [pod EXCEPT !.initializers.pending =
                      [nil |-> FALSE, elems |-> Tail(pod.initializers.pending.elems)]]]

\* faulty variant: the entry removed is the last one, not the first
removeSelfPendingInitializer_DropsLast(pod) ==
    IF pod.nil THEN [panic |-> TRUE, pod |-> pod]
    ELSE IF pod.initializers.nil \/ pod.initializers.pending.elems = <<>>
    THEN [panic |-> FALSE, pod |-> pod]
    ELSE LET e == pod.initializers.pending.elems IN
         [panic |-> FALSE,
          pod |-> [pod EXCEPT !.initializers.pending =
                      IF Len(e) = 1 THEN NoPending
                      ELSE PendingOf(SubSeq(e, 1, Len(e) - 1))]]

\* removeSelfPendingInitializer: a nil pod faults on pod.ObjectMeta; otherwise
\* nil initializers: nothing; one entry: Pending = nil; more: the first is dropped
removeSelfPendingInitializer(pod) ==
    IF pod.nil THEN [panic |-> TRUE, pod |-> pod]
    ELSE IF GetInitializers(pod).nil THEN [panic |-> FALSE, pod |-> pod]
    ELSE LET pendingInitializers == GetInitializers(pod).pending.elems
             n == Len(pendingInitializers)
         IN IF n = 1
            THEN [panic |-> FALSE,
                  pod |-> [pod EXCEPT !.initializers.pending = NoPending]]
            ELSE IF n > 1
            THEN [panic |-> FALSE,
                  pod |-> [pod EXCEPT !.initializers.pending =
                              PendingOf(SubSeq(ShiftLeft(pendingInitializers), 1, n - 1))]]
            ELSE [panic |-> FALSE, pod |-> pod]

\* faulty variant: the env var replaces the container's env vars instead of following them
InjectContainer_EnvReplaced(pod, i, serviceAccountName) ==
    [pod EXCEPT
        !.volumes = Append(@, SecretVolume(serviceAccountName)),
        !.containers[i].volumeMounts = Append(@, SecretMount(serviceAccountName)),
        !.containers[i].env = <<SecretEnv(serviceAccountName)>>]

\* faulty variant: the container gets its mount and env var but the pod no volume
InjectContainer_NoVolume(pod, i, serviceAccountName) ==
    [pod EXCEPT
        !.containers[i].volumeMounts = Append(@, SecretMount(serviceAccountName)),
        !.containers[i].env = Append(pod.containers[i].env, SecretEnv(serviceAccountName))]

\* one pass of the body of modifyPodSpec's loop, for container i (c is its copy)
InjectContainer(pod, i, serviceAccountName) ==
    LET c == pod.containers[i] IN
    [pod EXCEPT
        !.volumes = Append(@, SecretVolume(serviceAccountName)),
        !.containers[i].volumeMounts = Append(@, SecretMount(serviceAccountName)),
        !.containers[i].env = Append(c.env, SecretEnv(serviceAccountName))]

RECURSIVE InjectFrom(_, _, _, _)
\* for i, c := range pod.Spec.Containers: the range is over the n containers
\* the slice had when the loop began
InjectFrom(pod, i, n, serviceAccountName) ==
    IF i > n THEN pod
    ELSE Only({InjectFrom(next, i + 1, n, serviceAccountName) :
                  next \in {InjectContainer(pod, i, serviceAccountName)}})

\* modifyPodSpec: false for a nil pod, nil annotations or a missing key; otherwise
\* the loop over the containers, and true
modifyPodSpec(pod) ==
    IF pod.nil \/ pod.annotations.nil THEN [ret |-> FALSE, pod |-> pod]
    ELSE IF annotation \notin DOMAIN pod.annotations.m THEN [ret |-> FALSE, pod |-> pod]
    ELSE LET serviceAccountName == pod.annotations.m[annotation] IN
         [ret |-> TRUE,
          pod |-> InjectFrom(pod, 1, Len(pod.containers), serviceAccountName)]

----------------------------------------------------------------------------
(* The inputs *)

Tokens == {"a", Dot, Slash}

\* every text of at most n tokens
Texts(n) == UNION {[1..k -> Tokens] : k \in 0..n}

ServiceAccountNames == Texts(MaxNameLen)

\* an ordinary secret name
sa1 == <<"a">>

OtherAnnotation == "foo" :> <<"bar">>

AnnotationChoices(names) ==
    {NoAnnotations, AnnotationsOf(<<>>), AnnotationsOf(OtherAnnotation)}
    \cup {AnnotationsOf(OtherAnnotation @@ (annotation :> s)) : s \in names}

InitializerNames == {initializerName, otherInitializer}

Queues == UNION {[1..k -> InitializerNames] : k \in 0..MaxPending}

InitializerChoices ==
    {NoInitializers, InitializersOf(NoPending)}
    \cup {InitializersOf(PendingOf(q)) : q \in Queues}

DataVolume == [name |-> <<"data">>, secret |-> NoSecret]

DataMount ==
    [name |-> <<"data">>, mountPath |-> <<Slash, "data">>, subPath |-> <<>>,
     readOnly |-> FALSE]

OtherEnv == [name |-> "FOO", value |-> <<"bar">>]

\* container i of a pod, with or without a mount and an env var of its own
Container(i, own) ==
    [name |-> <<"c", i>>,
     volumeMounts |-> IF own THEN <<DataMount>> ELSE <<>>,
     env |-> IF own THEN <<OtherEnv>> ELSE <<>>]

\* the container lists of at most MaxContainers containers, with the volumes they mount
SpecChoices ==
    UNION {{[containers |-> [i \in 1..k |-> Container(i, own[i])],
             volumes |-> IF \E i \in 1..k : own[i] THEN <<DataVolume>> ELSE <<>>]
            : own \in [1..k -> BOOLEAN]} : k \in 0..MaxContainers}

\* the arguments the pure functions are applied to
ArgPods ==
    {NilPod} \cup
    {MakePod("foo", a, q, s.containers, s.volumes) :
        a \in AnnotationChoices(ServiceAccountNames), q \in InitializerChoices,
        s \in SpecChoices}

\* the pod templates of the cluster: the annotation names an ordinary secret
Templates ==
    {[annotations |-> a, containers |-> s.containers, volumes |-> s.volumes] :
        a \in {NoAnnotations, AnnotationsOf(OtherAnnotation),
               AnnotationsOf(OtherAnnotation @@ (annotation :> sa1))},
        s \in SpecChoices}

Pods == {"p1", "p2"}

----------------------------------------------------------------------------
(* The strategic two-way merge patch: lists of named objects are diffed and *)
(* merged by their merge key (pending initializers by name, volumes by      *)
(* name, containers by name, volume mounts by mountPath, env vars by name)  *)

Range(f) == {f[i] : i \in DOMAIN f}

Count(seq, x) == Cardinality({i \in DOMAIN seq : seq[i] = x})

\* the entries of the modified list that the original list does not hold
Added(orig, new) == SelectSeq(new, LAMBDA x : x \notin Range(orig))

EmptyPatch ==
    [initializersNull |-> FALSE, pendingNull |-> FALSE, pendingDelete |-> {},
     volumes |-> <<>>, containers |-> <<>>]

\* strategicpatch.CreateTwoWayMergePatch(origData, newData, corev1.Pod{})
CreateTwoWayMergePatch(origPod, newPod) ==
    LET oi == origPod.initializers
        ni == newPod.initializers
        changed == {i \in DOMAIN newPod.containers :
                       \/ i \notin DOMAIN origPod.containers
                       \/ newPod.containers[i] # origPod.containers[i]}
    IN [initializersNull |-> ni.nil /\ ~oi.nil,
        pendingNull |-> ~ni.nil /\ ni.pending.nil /\ ~oi.pending.nil,
        pendingDelete |->
            IF ni.nil \/ ni.pending.nil THEN {}
            ELSE {x \in Range(oi.pending.elems) :
                     Count(oi.pending.elems, x) > Count(ni.pending.elems, x)},
        volumes |-> Added(origPod.volumes, newPod.volumes),
        containers |->
            [j \in 1..Cardinality(changed) |->
                LET i == CHOOSE i \in changed :
                             Cardinality({k \in changed : k < i}) = j - 1
                    old == IF i \in DOMAIN origPod.containers
                           THEN origPod.containers[i]
                           ELSE [name |-> newPod.containers[i].name,
                                 volumeMounts |-> <<>>, env |-> <<>>]
                IN [name |-> newPod.containers[i].name,
                    volumeMounts |-> Added(old.volumeMounts,
                                           newPod.containers[i].volumeMounts),
                    env |-> Added(old.env, newPod.containers[i].env)]]]

RECURSIVE MergeByKey(_, _, _)
\* the stored list with the patch's entries merged in: an entry whose key the
\* list holds replaces that entry, any other is appended
MergeByKey(stored, entries, key) ==
    IF entries = <<>> THEN stored
    ELSE LET e == Head(entries)
             hit == {i \in DOMAIN stored : stored[i][key] = e[key]}
         IN MergeByKey(
                IF hit = {} THEN Append(stored, e)
                ELSE [i \in DOMAIN stored |-> IF i \in hit THEN e ELSE stored[i]],
                Tail(entries), key)

RECURSIVE MergeContainers(_, _)
MergeContainers(stored, entries) ==
    IF entries = <<>> THEN stored
    ELSE LET e == Head(entries)
             hit == {i \in DOMAIN stored : stored[i].name = e.name}
         IN MergeContainers(
                IF hit = {} THEN Append(stored, e)
                ELSE [i \in DOMAIN stored |->
                         IF i \in hit
                         THEN [stored[i] EXCEPT
                                  !.volumeMounts = MergeByKey(@, e.volumeMounts, "mountPath"),
                                  !.env = MergeByKey(@, e.env, "name")]
                         ELSE stored[i]],
                Tail(entries))

\* the API server applying a strategic merge patch to the object it stores
ApplyPatch(obj, patch) ==
    LET inits ==
            IF patch.initializersNull \/ obj.initializers.nil THEN
                 IF patch.initializersNull THEN NoInitializers ELSE obj.initializers
            ELSE IF patch.pendingNull THEN InitializersOf(NoPending)
            ELSE IF obj.initializers.pending.nil THEN obj.initializers
            ELSE InitializersOf(PendingOf(
                     SelectSeq(obj.initializers.pending.elems,
                               LAMBDA x : x \notin patch.pendingDelete)))
    IN [obj EXCEPT
           !.initializers = inits,
           !.volumes = MergeByKey(@, patch.volumes, "name"),
           !.containers = MergeContainers(@, patch.containers)]

----------------------------------------------------------------------------
(* patchPod and the AddFunc handler *)

Failures == {"none", "marshalOrig", "marshalNew", "diff"}

NoRequest == [active |-> FALSE, name |-> "", patch |-> EmptyPatch]

\* faulty variant: an error of CreateTwoWayMergePatch is not returned and the
\* empty patch is submitted
patchPod_SubmitsOnDiffError(origPod, newPod, fail) ==
    IF fail \in {"marshalOrig", "marshalNew"} THEN [err |-> TRUE, request |-> NoRequest]
    ELSE [err |-> FALSE,
          request |-> [active |-> TRUE, name |-> origPod.name,
                       patch |-> IF fail = "diff" THEN EmptyPatch
                                 ELSE CreateTwoWayMergePatch(origPod, newPod)]]

\* patchPod up to its call of Pods(namespace).Patch: an error of json.Marshal or
\* of CreateTwoWayMergePatch returns before any request is made
patchPod(origPod, newPod, fail) ==
    IF fail # "none" THEN [err |-> TRUE, request |-> NoRequest]
    ELSE [err |-> FALSE,
          request |-> [active |-> TRUE, name |-> origPod.name,
                       patch |-> CreateTwoWayMergePatch(origPod, newPod)]]

NoRun ==
    [seen |-> FALSE, snapshot |-> NilPod, origAfter |-> NilPod, gate |-> FALSE,
     cloneErr |-> FALSE, modified |-> FALSE, newPod |-> NilPod, panic |-> FALSE,
     fail |-> "none", patchPodCalls |-> 0, apiCalls |-> 0, request |-> NoRequest,
     result |-> "none", priorPatches |-> 0, ran |-> {}]

\* the functions AddFunc calls between the gate and patchPod, whatever they return
BeforePatch == {"clonePod", "modifyPodSpec", "removeSelfPendingInitializer"}

\* faulty variant: the handler returns when modifyPodSpec reports no injection
AddFuncPatch_ReturnOnNoInjection(pod, c, m, r, fail) ==
    LET run == [NoRun EXCEPT !.seen = TRUE, !.snapshot = pod, !.gate = TRUE,
                             !.cloneErr = c.err, !.modified = m.ret,
                             !.origAfter = pod, !.newPod = m.pod,
                             !.ran = {"clonePod", "modifyPodSpec"}]
    IN IF ~m.ret THEN [run EXCEPT !.result = "skipped"]
       ELSE Only({IF p.err
                  THEN [run EXCEPT !.newPod = r.pod, !.patchPodCalls = 1,
                                   !.ran = BeforePatch \cup {"patchPod"},
                                   !.fail = fail, !.result = "error"]
                  ELSE [run EXCEPT !.newPod = r.pod, !.patchPodCalls = 1,
                                   !.ran = BeforePatch \cup {"patchPod"},
                                   !.fail = fail,
                                   !.apiCalls = 1, !.request = p.request,
                                   !.result = "inflight"]
                  : p \in {patchPod(pod, r.pod, fail)}})

\* AddFunc after removeSelfPendingInitializer: c, m and r are what clonePod,
\* modifyPodSpec and removeSelfPendingInitializer returned.  patchPod is given
\* the pointer AddFunc received: what it serializes as the original is what
\* that object holds by then (origAfter)
AddFuncPatch(pod, c, m, r, fail) ==
    LET run == [NoRun EXCEPT !.seen = TRUE, !.snapshot = pod, !.gate = TRUE,
                             !.cloneErr = c.err, !.modified = m.ret,
                             !.origAfter = IF c.fresh THEN pod ELSE r.pod,
                             !.newPod = r.pod, !.ran = BeforePatch]
    IN IF r.panic THEN [run EXCEPT !.panic = TRUE, !.result = "panic"]
       ELSE Only({IF p.err
                  THEN [run EXCEPT !.patchPodCalls = 1, !.fail = fail,
                                   !.ran = BeforePatch \cup {"patchPod"},
                                   !.result = "error"]
                  ELSE [run EXCEPT !.patchPodCalls = 1, !.fail = fail,
                                   !.ran = BeforePatch \cup {"patchPod"},
                                   !.apiCalls = 1,
                                   !.request = p.request, !.result = "inflight"]
                  : p \in {patchPod(run.origAfter, r.pod, fail)}})

\* AddFunc on a *corev1.Pod, up to the point where it returns or blocks in Patch:
\* the gate, then clonePod, modifyPodSpec, removeSelfPendingInitializer and
\* patchPod in turn, an error of clonePod only logged
AddFunc(pod, deepCopyFails, fail) ==
    IF ~needsInitialization(pod)
    THEN [NoRun EXCEPT !.seen = TRUE, !.snapshot = pod, !.origAfter = pod,
                       !.result = "skipped"]
    ELSE Only({Only({Only({AddFuncPatch(pod, c, m, r, fail)
                              : r \in {removeSelfPendingInitializer(m.pod)}})
                        : m \in {modifyPodSpec(c.pod)}})
                  : c \in {clonePod(pod, deepCopyFails)}})

NoHist == [adds |-> 0, patched |-> 0, calls |-> 0]

----------------------------------------------------------------------------
(* The cluster and the process *)

Idle == [op |-> "none", arg |-> NilPod, ret |-> FALSE, panic |-> FALSE, out |-> NilPod]

Quiet ==
    /\ api = [p \in Pods |-> NilPod]
    /\ store = {}
    /\ running = TRUE
    /\ busy = NoRequest
    /\ last = [p \in Pods |-> NoRun]
    /\ hist = [p \in Pods |-> NoHist]
    /\ restarts = 0

Init ==
    /\ call = Idle
    /\ tmpl \in Templates
    /\ Quiet

\* a client creates pod p; the API server's initializer configuration gives it
\* its pending queue
CreatePod(p, inits) ==
    /\ api[p].nil
    /\ api' = [api EXCEPT ![p] =
                  MakePod(p, tmpl.annotations, inits, tmpl.containers, tmpl.volumes)]
    /\ UNCHANGED <<call, tmpl, store, running, busy, last, hist, restarts>>

\* another initializer, at the head of p's queue, removes its entry
OtherInitializer(p) ==
    /\ ~api[p].nil
    /\ ~api[p].initializers.nil
    /\ Len(api[p].initializers.pending.elems) > 0
    /\ api[p].initializers.pending.elems[1] = otherInitializer
    /\ api' = [api EXCEPT ![p].initializers.pending =
                  IF Len(@.elems) = 1 THEN NoPending ELSE PendingOf(Tail(@.elems))]
    /\ UNCHANGED <<call, tmpl, store, running, busy, last, hist, restarts>>

\* faulty variant: every event is handled on a goroutine of its own, also while
\* another handler is blocked in its Patch request
OnAdd_OwnGoroutine(p, deepCopyFails, fail) ==
    /\ running
    /\ ~api[p].nil
    /\ p \notin store
    /\ last' = [last EXCEPT ![p] = [AddFunc(api[p], deepCopyFails, fail) EXCEPT
                                        !.priorPatches = hist[p].patched]]
    /\ hist' = [hist EXCEPT ![p].adds = @ + 1, ![p].calls = @ + last'[p].apiCalls]
    /\ busy' = IF busy.active THEN busy ELSE last'[p].request
    /\ running' = ~last'[p].panic
    /\ store' = store \cup {p}
    /\ UNCHANGED <<call, tmpl, api, restarts>>

\* the informer finds p in the cluster and not in its store: it stores it and
\* calls AddFunc.  Later changes of a stored object reach UpdateFunc, which main
\* leaves unset.
OnAdd(p, deepCopyFails, fail) ==
    /\ running
    /\ ~busy.active
    /\ ~api[p].nil
    /\ p \notin store
    /\ last' = [last EXCEPT ![p] = [AddFunc(api[p], deepCopyFails, fail) EXCEPT
                                        !.priorPatches = hist[p].patched]]
    /\ hist' = [hist EXCEPT ![p].adds = @ + 1, ![p].calls = @ + last'[p].apiCalls]
    /\ busy' = last'[p].request
    /\ running' = ~last'[p].panic
    /\ store' = store \cup {p}
    /\ UNCHANGED <<call, tmpl, api, restarts>>

\* faulty variant: a rejected Patch is submitted again
PatchReturn_Retry(ok) ==
    /\ running
    /\ busy.active
    /\ IF ok
       THEN /\ busy' = NoRequest
            /\ api' = [api EXCEPT ![busy.name] = ApplyPatch(@, busy.patch)]
            /\ last' = [last EXCEPT ![busy.name].result = "initialized"]
            /\ hist' = [hist EXCEPT ![busy.name].patched = @ + 1]
       ELSE /\ last[busy.name].apiCalls < 2
            /\ last' = [last EXCEPT ![busy.name].apiCalls = @ + 1]
            /\ hist' = [hist EXCEPT ![busy.name].calls = @ + 1]
            /\ UNCHANGED <<api, busy>>
    /\ UNCHANGED <<call, tmpl, store, running, restarts>>

\* the API server answers the Patch request: it applies the patch, or rejects it
PatchReturn(ok) ==
    /\ running
    /\ busy.active
    /\ busy' = NoRequest
    /\ IF ok
       THEN /\ api' = [api EXCEPT ![busy.name] = ApplyPatch(@, busy.patch)]
            /\ last' = [last EXCEPT ![busy.name].result = "initialized"]
            /\ hist' = [hist EXCEPT ![busy.name].patched = @ + 1]
       ELSE /\ last' = [last EXCEPT ![busy.name].result = "error"]
            /\ UNCHANGED <<api, hist>>
    /\ UNCHANGED <<call, tmpl, store, running, restarts>>

\* the watch hands AddFunc an object that is not a *corev1.Pod: log.Fatalf
OnAddNonPod ==
    /\ running
    /\ ~busy.active
    /\ running' = FALSE
    /\ UNCHANGED <<call, tmpl, api, store, busy, last, hist, restarts>>

\* the process is started again (by its supervisor, after it exited or was
\* stopped): the new informer starts from an empty store
Restart ==
    /\ restarts < MaxRestarts
    /\ ~busy.active
    /\ restarts' = restarts + 1
    /\ running' = TRUE
    /\ store' = {}
    /\ UNCHANGED <<call, tmpl, api, busy, last, hist>>

\* the steps of a cluster in which the pods of P are created
Step(P) ==
    \/ \E p \in P, inits \in InitializerChoices : CreatePod(p, inits)
    \/ \E p \in P : OtherInitializer(p)
    \/ \E p \in P, deepCopyFails \in BOOLEAN, fail \in Failures :
           OnAdd(p, deepCopyFails, fail)
    \/ \E ok \in BOOLEAN : PatchReturn(ok)
    \/ OnAddNonPod
    \/ Restart

\* one pod, of every template and with every pending queue
Next == Step({"p1"})

Spec == Init /\ [][Next]_vars

----------------------------------------------------------------------------
(* The pure functions applied directly to every argument *)

FnInit ==
    /\ call \in {[Idle EXCEPT !.arg = pod] : pod \in ArgPods}
    /\ tmpl = [annotations |-> NoAnnotations, containers |-> <<>>, volumes |-> <<>>]
    /\ Quiet

CallNeedsInitialization ==
    /\ call.op = "none"
    /\ ~call.arg.nil
    /\ call' = [call EXCEPT !.op = "needsInitialization",
                            !.ret = needsInitialization(call.arg),
                            !.out = call.arg]
    /\ UNCHANGED <<tmpl, api, store, running, busy, last, hist, restarts>>

CallRemoveSelfPendingInitializer ==
    /\ call.op = "none"
    /\ LET r == removeSelfPendingInitializer(call.arg) IN
       call' = [call EXCEPT !.op = "removeSelfPendingInitializer",
                            !.panic = r.panic, !.out = r.pod]
    /\ UNCHANGED <<tmpl, api, store, running, busy, last, hist, restarts>>

CallModifyPodSpec ==
    /\ call.op = "none"
    /\ LET m == modifyPodSpec(call.arg) IN
       call' = [call EXCEPT !.op = "modifyPodSpec", !.ret = m.ret, !.out = m.pod]
    /\ UNCHANGED <<tmpl, api, store, running, busy, last, hist, restarts>>

\* modifyPodSpec applied again, to the pod its first application returned with
\* true: arg is now the first result, out the second
CallModifyPodSpecAgain ==
    /\ call.op = "modifyPodSpec"
    /\ call.ret
    /\ LET m == modifyPodSpec(call.out) IN
       call' = [call EXCEPT !.op = "modifyPodSpecAgain", !.arg = call.out,
                            !.ret = m.ret, !.out = m.pod]
    /\ UNCHANGED <<tmpl, api, store, running, busy, last, hist, restarts>>

FnNext ==
    \/ CallNeedsInitialization
    \/ CallRemoveSelfPendingInitializer
    \/ CallModifyPodSpec
    \/ CallModifyPodSpecAgain

FnSpec == FnInit /\ [][FnNext]_vars

----------------------------------------------------------------------------
(* Claims about the pure functions, under FnSpec *)

Called(op) == call.op = op

HasAnnotation(pod) ==
    ~pod.nil /\ ~pod.annotations.nil /\ annotation \in DOMAIN pod.annotations.m

\* C1: needsInitialization(pod) is true if and only if the pod's initializers
\* are non-nil, the pending queue has at least one entry, and the entry at
\* index 0 is "serviceaccounts.cloud.google.com"; it is false for no
\* initializers, an empty queue, another name at the head, and this
\* component's name only behind the head.
C1_GateIffSelfAtHead ==
    Called("needsInitialization") =>
        LET i == call.arg.initializers IN
        /\ call.ret <=> /\ ~i.nil
                        /\ ~i.pending.nil
                        /\ Len(i.pending.elems) >= 1
                        /\ Head(i.pending.elems) = "serviceaccounts.cloud.google.com"
        /\ call.out = call.arg

C1_Witness ==
    /\ Called("needsInitialization")
    /\ call.ret
    /\ Len(call.arg.initializers.pending.elems) = 2

\* C3: removeSelfPendingInitializer leaves a queue of exactly one entry nil
\* (absent, not an empty sequence), leaves of a queue of N > 1 entries the last
\* N-1 in their order, and leaves a pod with nil initializers or a nil pending
\* queue unchanged; nothing but the queue changes.
C3_PopFirstPending ==
    (Called("removeSelfPendingInitializer") /\ ~call.arg.nil) =>
        LET i == call.arg.initializers
            n == Len(i.pending.elems)
        IN /\ ~call.panic
           /\ (i.nil \/ i.pending.nil) => call.out = call.arg
           /\ n = 1 => call.out = [call.arg EXCEPT !.initializers.pending =
                                      [nil |-> TRUE, elems |-> <<>>]]
           /\ n > 1 => call.out = [call.arg EXCEPT !.initializers.pending =
                                      [nil |-> FALSE,
                                       elems |-> [k \in 1..(n - 1) |-> i.pending.elems[k + 1]]]]

C3_Witness ==
    /\ Called("removeSelfPendingInitializer")
    /\ call.arg.initializers.pending.elems = <<otherInitializer>>
    /\ call.out.initializers.pending.nil

\* the text /var/run/secrets/gcp/<S><suffix>, written out
Literal(S, suffix) ==
    <<"/", "var", "/", "run", "/", "secrets", "/", "gcp", "/">> \o S \o suffix

\* S is a path of ordinary elements: not empty, no empty, "." or ".." element
Plain(S) ==
    /\ S # <<>>
    /\ \A e \in Range(Split(S)) : e # <<>> /\ e # <<Dot>> /\ e # DotDot

\* every container of the result is the argument's container with one mount
\* and one env var after its own
InjectedWith(mountPath, keyPath) ==
    LET S == call.arg.annotations.m[annotation] IN
    /\ call.ret
    /\ Len(call.out.containers) = Len(call.arg.containers)
    /\ \A i \in DOMAIN call.arg.containers :
          LET c == call.arg.containers[i]
              d == call.out.containers[i]
          IN /\ d.name = c.name
             /\ d.volumeMounts = c.volumeMounts \o
                    <<[name |-> <<"gcp-">> \o S, mountPath |-> mountPath,
                       subPath |-> <<>>, readOnly |-> TRUE]>>
             /\ d.env = c.env \o
                    <<[name |-> "GOOGLE_APPLICATION_CREDENTIALS", value |-> keyPath]>>

InjectionCase ==
    /\ Called("modifyPodSpec")
    /\ HasAnnotation(call.arg)
    /\ Len(call.arg.containers) >= 1

C5_OneVolumePerPod ==
    InjectionCase =>
        LET S == call.arg.annotations.m[annotation] IN
        call.out.volumes = call.arg.volumes \o
            <<[name |-> <<"gcp-">> \o S,
               secret |-> [nil |-> FALSE, secretName |-> S,
                           items |-> <<[key |-> <<"key", ".", "json">>,
                                        path |-> <<"key", ".", "json">>]>>]]>>

\* C7: modifyPodSpec returns false and leaves its argument unchanged whenever
\* the pod is nil or has no containers, with or without the annotation.
C7_NoContainersNotModified ==
    (Called("modifyPodSpec") /\ (call.arg.nil \/ Len(call.arg.containers) = 0)) =>
        /\ ~call.ret
        /\ call.out = call.arg

\* C20: credential injection is idempotent: modifyPodSpec applied a second
\* time to a pod it has already injected (same annotation value S) yields a pod
\* equal to the result of the first application, with no second gcp-S Volume,
\* VolumeMount or GOOGLE_APPLICATION_CREDENTIALS EnvVar.
C20_InjectionIdempotent ==
    Called("modifyPodSpecAgain") =>
        LET S == call.arg.annotations.m[annotation] IN
        /\ call.out = call.arg
        /\ Cardinality({i \in DOMAIN call.out.volumes :
                            call.out.volumes[i].name = <<"gcp-">> \o S}) <= 1
        /\ \A i \in DOMAIN call.out.containers :
              /\ Cardinality({k \in DOMAIN call.out.containers[i].volumeMounts :
                                  call.out.containers[i].volumeMounts[k].name =
                                      <<"gcp-">> \o S}) <= 1
              /\ Cardinality({k \in DOMAIN call.out.containers[i].env :
                                  call.out.containers[i].env[k].name =
                                      "GOOGLE_APPLICATION_CREDENTIALS"}) <= 1

\* the positions of the mounts container i has in the result and not in the argument
AddedMounts(i) ==
    (Len(call.arg.containers[i].volumeMounts) + 1) ..
        Len(call.out.containers[i].volumeMounts)

\* C21: after modifyPodSpec, every VolumeMount it added to a container names a
\* Volume that is in the same pod's volumes list, with a secret source whose
\* secret name is the annotation value, so no injected mount refers to a
\* missing volume; and when it adds no mount it adds no volume.
C21_MountsHaveTheirVolume ==
    Called("modifyPodSpec") =>
        /\ DOMAIN call.out.containers = DOMAIN call.arg.containers
        /\ \A i \in DOMAIN call.out.containers :
              /\ SubSeq(call.out.containers[i].volumeMounts, 1,
                        Len(call.arg.containers[i].volumeMounts)) =
                     call.arg.containers[i].volumeMounts
              /\ \A k \in AddedMounts(i) :
                    /\ HasAnnotation(call.arg)
                    /\ \E v \in DOMAIN call.out.volumes :
                          /\ call.out.volumes[v].name =
                                 call.out.containers[i].volumeMounts[k].name
                          /\ ~call.out.volumes[v].secret.nil
                          /\ call.out.volumes[v].secret.secretName =
                                 call.arg.annotations.m[annotation]
        /\ (\A i \in DOMAIN call.out.containers : AddedMounts(i) = {}) =>
               call.out.volumes = call.arg.volumes

C21_Witness ==
    /\ Called("modifyPodSpec")
    /\ Len(call.arg.containers) = 2
    /\ call.arg.containers[2].volumeMounts # <<>>
    /\ call.arg.volumes # <<>>
    /\ AddedMounts(1) # {} /\ AddedMounts(2) # {}
    /\ Len(call.out.volumes) > Len(call.arg.volumes)

----------------------------------------------------------------------------
(* Claims about the handler, under Spec *)

\* the object fails the gate: no queue, an empty queue, or another name at index 0
FailsGate(pod) ==
    \/ pod.initializers.nil
    \/ pod.initializers.pending.nil
    \/ pod.initializers.pending.elems = <<>>
    \/ Head(pod.initializers.pending.elems) # "serviceaccounts.cloud.google.com"

\* this step is a delivery of p to the handler
Delivered(p) == hist'[p].adds = hist[p].adds + 1

\* C2: for every event delivered to the Pod handler whose object fails the
\* gate, the handler submits no patch, and neither the delivered snapshot nor
\* the object stored in the API is changed by that event.
C2_SkippedUntouched ==
    [][\A p \in Pods :
          (Delivered(p) /\ FailsGate(api[p])) =>
              /\ last'[p].result = "skipped"
              /\ last'[p].patchPodCalls = 0 /\ last'[p].apiCalls = 0
              /\ hist'[p].calls = hist[p].calls
              /\ ~busy'.active
              /\ last'[p].origAfter = api[p]
              /\ api' = api]_vars

C2_Witness ==
    \E p \in Pods :
        /\ last[p].result = "skipped"
        /\ last[p].snapshot.initializers.pending.elems =
               <<otherInitializer, initializerName>>

\* the patch removes this component's entry from the stored queue
Pops(patch) ==
    \/ patch.pendingNull
    \/ "serviceaccounts.cloud.google.com" \in patch.pendingDelete

\* the run's clone is the snapshot with its first pending entry removed (a queue
\* of one entry left nil) and nothing injected
PoppedOnly(run) ==
    LET q == run.snapshot.initializers.pending.elems IN
    run.newPod = [run.snapshot EXCEPT !.initializers.pending =
                     IF Len(q) = 1 THEN [nil |-> TRUE, elems |-> <<>>]
                     ELSE [nil |-> FALSE, elems |-> Tail(q)]]

EligibleWithoutAnnotation(run) ==
    run.seen /\ run.gate /\ ~HasAnnotation(run.snapshot)

\* C6 (as stated): for an eligible pod whose annotations are nil or lack the
\* key, modifyPodSpec returns false and adds nothing, yet the handler pops this
\* component from the queue and submits a patch that persists the pop.
C6_Stated_AlwaysPatched ==
    \A p \in Pods :
        EligibleWithoutAnnotation(last[p]) =>
            /\ ~last[p].modified
            /\ PoppedOnly(last[p])
            /\ last[p].apiCalls = 1
            /\ Pops(last[p].request.patch)

\* C6 (amended): the same when clonePod, both serializations and the diff
\* succeed; when one of them fails the handler submits no patch.
C6_NoAnnotationStillPopped ==
    \A p \in Pods :
        EligibleWithoutAnnotation(last[p]) =>
            /\ ~last[p].modified
            /\ (~last[p].cloneErr /\ last[p].fail = "none") =>
                  /\ PoppedOnly(last[p])
                  /\ last[p].apiCalls = 1
                  /\ last[p].request.name = p
                  /\ Pops(last[p].request.patch)
                  /\ last[p].request.patch.volumes = <<>>
                  /\ last[p].request.patch.containers = <<>>
            /\ (last[p].cloneErr \/ last[p].fail # "none") => last[p].apiCalls = 0

C6_Witness ==
    \E p \in Pods :
        /\ EligibleWithoutAnnotation(last[p])
        /\ Len(last[p].snapshot.containers) >= 1
        /\ last[p].result = "initialized"
        /\ api[p].initializers.pending.nil
        /\ api[p].volumes = last[p].snapshot.volumes

\* C8 (as stated): for each event whose object passes the gate, the handler
\* attempts exactly one patch submission for that object.
C8_Stated_ExactlyOnePatch ==
    \A p \in Pods : (last[p].seen /\ last[p].gate) => last[p].apiCalls = 1

\* C8 (amended): for each event whose object passes the gate, the handler
\* attempts at most one patch submission, and exactly one when clonePod, both
\* serializations and the diff succeed; a rejected submission is not repeated,
\* so an object never has more submissions than deliveries.
C8_AtMostOnePatchPerEvent ==
    \A p \in Pods :
        /\ (last[p].seen /\ last[p].gate) =>
              /\ last[p].apiCalls <= 1
              /\ last[p].patchPodCalls = (IF last[p].cloneErr THEN 0 ELSE 1)
              /\ last[p].apiCalls =
                     (IF ~last[p].cloneErr /\ last[p].fail = "none" THEN 1 ELSE 0)
        /\ hist[p].calls <= hist[p].adds
        /\ (busy.active /\ busy.name = p) => last[p].result = "inflight"

C8_Witness ==
    \E p \in Pods :
        /\ last[p].gate
        /\ last[p].apiCalls = 1
        /\ last[p].result = "error"
        /\ ~busy.active

\* C9: after the handler's patch for an object has succeeded, any later
\* delivery of that object's updated state is rejected by the gate, so the
\* object is never mutated or patched a second time, for every initial pending
\* queue that had this component's name at its head.
C9_NeverPatchedTwice ==
    \A p \in Pods :
        /\ (last[p].seen /\ last[p].priorPatches > 0) =>
              /\ ~last[p].gate
              /\ last[p].result = "skipped"
              /\ last[p].apiCalls = 0
        /\ hist[p].patched <= 1
        /\ hist[p].patched = 1 => FailsGate(api[p])

C9_Witness ==
    \E p \in Pods :
        /\ last[p].seen
        /\ last[p].priorPatches = 1
        /\ last[p].result = "skipped"
        /\ last[p].snapshot.initializers.pending.elems = <<otherInitializer>>

----------------------------------------------------------------------------
(* Claims about the handler's failures and its frame, under Spec *)

\* C11: no per-object failure in the Pod handler (clone failure, serialization
\* failure, diff failure, patch rejection, an object of an unexpected type)
\* terminates the process: the process stays alive and no run of the handler
\* ends in a fault.
C11_NoFailureStopsProcess ==
    /\ running
    /\ \A p \in Pods : last[p].seen => ~last[p].panic /\ last[p].result # "panic"

\* C12: when clonePod returns an error for an eligible pod, the handler stops
\* processing that object: modifyPodSpec, removeSelfPendingInitializer and
\* patchPod are not executed for it, no patch is attempted, and the object is
\* left untouched.
C12_CloneErrorStopsHandler ==
    \A p \in Pods :
        (last[p].seen /\ last[p].gate /\ last[p].cloneErr) =>
            /\ last[p].ran \cap {"modifyPodSpec", "removeSelfPendingInitializer",
                                  "patchPod"} = {}
            /\ ~last[p].panic
            /\ last[p].patchPodCalls = 0
            /\ last[p].apiCalls = 0
            /\ last[p].origAfter = last[p].snapshot
            /\ running

\* C13: whenever the Pod handler submits a patch, the mutated object's pending
\* queue is the delivered snapshot's queue with exactly its first entry
\* removed, and that entry is this component's own name; the other entries are
\* all there, once each, in their order.
C13_PatchPopsOwnHead ==
    \A p \in Pods :
        last[p].apiCalls = 1 =>
            LET q == last[p].snapshot.initializers.pending.elems
                r == last[p].newPod.initializers
            IN /\ Len(q) >= 1
               /\ q[1] = "serviceaccounts.cloud.google.com"
               /\ ~r.nil
               /\ r.pending.elems = [k \in 1..(Len(q) - 1) |-> q[k + 1]]

C13_Witness ==
    \E p \in Pods :
        /\ last[p].apiCalls = 1
        /\ last[p].snapshot.initializers.pending.elems =
               <<initializerName, otherInitializer>>
        /\ last[p].newPod.initializers.pending.elems = <<otherInitializer>>

\* C14: patchPod returns an error and makes no API patch call when serializing
\* the original pod, serializing the modified pod or computing the two-way
\* merge patch fails; when all three succeed it makes exactly one API patch
\* call, addressed to the original pod (an object's name in the model is its
\* namespace and name), returns an error if that call is rejected, and never
\* retries.
C14_PatchPodOneCallNoRetry ==
    \A p \in Pods :
        /\ (last[p].patchPodCalls = 1 /\ last[p].fail # "none") =>
              /\ last[p].apiCalls = 0
              /\ ~last[p].request.active
              /\ last[p].result = "error"
        /\ (last[p].patchPodCalls = 1 /\ last[p].fail = "none") =>
              /\ last[p].apiCalls = 1
              /\ last[p].request.active
              /\ last[p].request.name = last[p].snapshot.name
              /\ last[p].request.name = p
              /\ last[p].result \in {"inflight", "initialized", "error"}
              /\ last[p].result = "inflight" <=> (busy.active /\ busy.name = p)
              /\ last[p].result = "initialized" =>
                     hist[p].patched = last[p].priorPatches + 1
              /\ last[p].result = "error" => hist[p].patched = last[p].priorPatches
        /\ last[p].apiCalls <= last[p].patchPodCalls
        /\ hist[p].calls <= hist[p].adds

C14_Witness ==
    \E p \in Pods :
        /\ last[p].patchPodCalls = 1
        /\ last[p].fail = "none"
        /\ last[p].result = "error"
        /\ hist[p].calls = 1
        /\ ~busy.active

\* C16: processing an eligible event changes only the clone: the delivered
\* snapshot (pending queue, volumes, every container's mounts and env vars) is
\* after the handler what it was when delivered, and the original serialized
\* for the diff is that unmodified snapshot.
C16_OnlyCloneChanges ==
    \A p \in Pods :
        (last[p].seen /\ last[p].gate) =>
            /\ last[p].origAfter = last[p].snapshot
            /\ last[p].apiCalls = 1 =>
                   last[p].request.patch =
                       CreateTwoWayMergePatch(last[p].snapshot, last[p].newPod)

C16_Witness ==
    \E p \in Pods :
        /\ last[p].gate
        /\ last[p].modified
        /\ last[p].apiCalls = 1
        /\ Len(last[p].snapshot.containers) = 2
        /\ last[p].newPod.volumes # last[p].snapshot.volumes
        /\ last[p].newPod.initializers # last[p].snapshot.initializers
        /\ last[p].origAfter = last[p].snapshot

----------------------------------------------------------------------------
(* Two pods of one template: the informer's single goroutine (controller.Run, *)
(* main.go:129) takes the events from its queue one at a time and calls       *)
(* AddFunc synchronously, so the next event waits for AddFunc to return       *)

PairTemplate ==
    [annotations |-> AnnotationsOf(OtherAnnotation @@ (annotation :> sa1)),
     containers |-> <<Container(1, FALSE)>>, volumes |-> <<>>]

PairInit ==
    /\ call = Idle
    /\ tmpl = PairTemplate
    /\ Quiet

\* the pending queues of the pair: none, this component alone, before and
\* behind another initializer
PairInitializers ==
    {NoInitializers,
     InitializersOf(PendingOf(<<initializerName>>)),
     InitializersOf(PendingOf(<<initializerName, otherInitializer>>)),
     InitializersOf(PendingOf(<<otherInitializer, initializerName>>))}

\* the steps of one life of the process
PairNext ==
    \/ \E p \in Pods, inits \in PairInitializers : CreatePod(p, inits)
    \/ \E p \in Pods : OtherInitializer(p)
    \/ \E p \in Pods, deepCopyFails \in BOOLEAN, fail \in Failures :
           OnAdd(p, deepCopyFails, fail)
    \/ \E ok \in BOOLEAN : PatchReturn(ok)

PairSpec == PairInit /\ [][PairNext]_vars

\* q's Add event is waiting: q is in the cluster and was not delivered yet
Waiting(q) == ~api[q].nil /\ q \notin store

\* the handler's Patch request for p is in flight and has not returned
Blocked(p) == running /\ busy.active /\ busy.name = p

----------------------------------------------------------------------------
(* The Deployment variant (src/main.go): initializeDeployment, called from the *)
(* Deployment informer's AddFunc.  A Deployment is the same record as a pod,   *)
(* its containers and volumes being those of Spec.Template.Spec.               *)

deploymentAnnotation == "iam.cloud.google.com/account-name"

\* the queue pop of initializeDeployment.  pendingInitializers is the slice of
\* the delivered object: for one entry the copy's Initializers are set to nil;
\* for more, append(pendingInitializers[:0], pendingInitializers[1:]...) writes
\* into the delivered object's backing array and the copy is given the result
PopDeployment(deployment) ==
    LET pendingInitializers == deployment.initializers.pending.elems
        n == Len(pendingInitializers)
    IN IF n = 1
       THEN [deployment |-> deployment,
             initializedDeployment |->
                 [deployment EXCEPT !.initializers = NoInitializers]]
       ELSE [deployment |->
                 [deployment EXCEPT !.initializers.pending =
                     PendingOf(ShiftLeft(pendingInitializers))],
             initializedDeployment |->
                 [deployment EXCEPT !.initializers.pending =
                     PendingOf(SubSeq(ShiftLeft(pendingInitializers), 1, n - 1))]]

\* initializeDeployment from the annotation lookup on: without the annotation
\* the copy is sent whole by Update; with it the containers of the copy are
\* injected and the diff of the delivered object and the copy is sent by Patch
SubmitDeployment(run, popped, fail) ==
    LET d == popped.deployment
        ok == ~d.annotations.nil /\ deploymentAnnotation \in DOMAIN d.annotations.m
    IN IF ~ok
       THEN [run EXCEPT !.origAfter = d, !.newPod = popped.initializedDeployment,
                        !.ran = {"DeepCopy", "Update"}, !.apiCalls = 1,
                        !.request = [active |-> TRUE, name |-> d.name,
                                     patch |-> EmptyPatch],
                        !.result = "inflight"]
       ELSE Only({IF fail # "none"
                  THEN [run EXCEPT !.origAfter = d, !.newPod = new, !.modified = TRUE,
                                   !.ran = {"DeepCopy"}, !.fail = fail,
                                   !.result = "error"]
                  ELSE [run EXCEPT !.origAfter = d, !.newPod = new, !.modified = TRUE,
                                   !.ran = {"DeepCopy", "Patch"}, !.apiCalls = 1,
                                   !.request = [active |-> TRUE, name |-> d.name,
                                                patch |-> CreateTwoWayMergePatch(d, new)],
                                   !.result = "inflight"]
                  : new \in {InjectFrom(popped.initializedDeployment, 1,
                                        Len(popped.initializedDeployment.containers),
                                        d.annotations.m[deploymentAnnotation])}})

\* initializeDeployment up to the point where it returns or blocks in Update or
\* Patch: nil initializers return nil; pendingInitializers[0] is read without a
\* length check, an index-out-of-range fault on an empty queue; another name at
\* the head returns nil; an error of DeepCopy is returned
initializeDeployment(deployment, deepCopyFails, fail) ==
    LET run == [NoRun EXCEPT !.seen = TRUE, !.snapshot = deployment,
                             !.origAfter = deployment]
    IN IF GetInitializers(deployment).nil THEN [run EXCEPT !.result = "skipped"]
       ELSE IF Len(GetInitializers(deployment).pending.elems) = 0
       THEN [run EXCEPT !.panic = TRUE, !.result = "panic"]
       ELSE IF GetInitializers(deployment).pending.elems[1] # initializerName
       THEN [run EXCEPT !.result = "skipped"]
       ELSE IF deepCopyFails
       THEN [run EXCEPT !.gate = TRUE, !.cloneErr = TRUE, !.ran = {"DeepCopy"},
                        !.result = "error"]
       ELSE Only({SubmitDeployment([run EXCEPT !.gate = TRUE], popped, fail)
                     : popped \in {PopDeployment(deployment)}})

\* the cluster's Deployment templates: the annotation names an ordinary secret
DeploymentTemplates ==
    {[annotations |-> a, containers |-> s.containers, volumes |-> s.volumes] :
        a \in {NoAnnotations, AnnotationsOf(OtherAnnotation),
               AnnotationsOf(OtherAnnotation @@ (deploymentAnnotation :> sa1))},
        s \in SpecChoices}

DeploymentInit ==
    /\ call = Idle
    /\ tmpl \in DeploymentTemplates
    /\ Quiet

\* a client creates Deployment p
CreateDeployment(p, inits) == CreatePod(p, inits)

\* the Deployment informer finds p in the cluster and not in its store: it
\* stores it and calls AddFunc, which calls initializeDeployment and logs the
\* error it returns
OnAddDeployment(p, deepCopyFails, fail) ==
    /\ running
    /\ ~busy.active
    /\ ~api[p].nil
    /\ p \notin store
    /\ last' = [last EXCEPT ![p] = [initializeDeployment(api[p], deepCopyFails, fail)
                                        EXCEPT !.priorPatches = hist[p].patched]]
    /\ hist' = [hist EXCEPT ![p].adds = @ + 1, ![p].calls = @ + last'[p].apiCalls]
    /\ busy' = last'[p].request
    /\ running' = ~last'[p].panic
    /\ store' = store \cup {p}
    /\ UNCHANGED <<call, tmpl, api, restarts>>

\* the API server answers the Update or Patch request: it stores the object
\* sent or applies the patch, or rejects the request
DeploymentReturn(ok) ==
    /\ running
    /\ busy.active
    /\ busy' = NoRequest
    /\ IF ok
       THEN /\ api' = [api EXCEPT ![busy.name] =
                          IF "Update" \in last[busy.name].ran
                          THEN last[busy.name].newPod
                          ELSE ApplyPatch(@, busy.patch)]
            /\ last' = [last EXCEPT ![busy.name].result = "initialized"]
            /\ hist' = [hist EXCEPT ![busy.name].patched = @ + 1]
       ELSE /\ last' = [last EXCEPT ![busy.name].result = "error"]
            /\ UNCHANGED <<api, hist>>
    /\ UNCHANGED <<call, tmpl, store, running, restarts>>

DeploymentNext ==
    \/ \E inits \in InitializerChoices : CreateDeployment("p1", inits)
    \/ \E deepCopyFails \in BOOLEAN, fail \in Failures :
           OnAddDeployment("p1", deepCopyFails, fail)
    \/ \E ok \in BOOLEAN : DeploymentReturn(ok)

DeploymentSpec == DeploymentInit /\ [][DeploymentNext]_vars

\* C17: in the Deployment variant, initializeDeployment leaves the delivered
\* Deployment snapshot unchanged for every pending-queue length: the pop is
\* applied to the deep copy only, and the snapshot's queue still lists this
\* component's name at index 0 followed by the other entries.
C17_DeploymentSnapshotUnchanged ==
    \A p \in Pods :
        last[p].seen =>
            /\ last[p].origAfter = last[p].snapshot
            /\ ~FailsGate(last[p].snapshot) =>
                   /\ Head(last[p].origAfter.initializers.pending.elems) =
                          "serviceaccounts.cloud.google.com"
                   /\ Tail(last[p].origAfter.initializers.pending.elems) =
                          Tail(last[p].snapshot.initializers.pending.elems)

\* C18: in the Deployment variant, for an eligible Deployment with N > 1
\* pending entries, the pair serialized for the two-way diff differs in the
\* queue by exactly the removal of this component's head entry (the original
\* has all N entries, this component first; the modified has the other N-1 in
\* order), so a successful patch removes this component from the persisted
\* queue.
C18_DeploymentPatchPopsHead ==
    \A p \in Pods :
        LET q == last[p].snapshot.initializers.pending.elems IN
        (last[p].seen /\ "Patch" \in last[p].ran /\ Len(q) > 1) =>
            /\ last[p].origAfter.initializers.pending.elems = q
            /\ Head(q) = "serviceaccounts.cloud.google.com"
            /\ last[p].newPod.initializers.pending.elems = Tail(q)
            /\ last[p].result = "initialized" =>
                   api[p].initializers.pending.elems = Tail(q)

\* the Deployment is one the gate rejects: nil initializers or another name at
\* the head of the queue
PlainlyIneligible(d) ==
    \/ d.initializers.nil
    \/ /\ Len(d.initializers.pending.elems) > 0
       /\ Head(d.initializers.pending.elems) # "serviceaccounts.cloud.google.com"

\* C19: in the Deployment variant, a Deployment whose initializers are present
\* but whose pending queue is empty is ineligible: initializeDeployment returns
\* without error or fault, changes nothing and submits no update or patch,
\* exactly as for nil initializers or another name at the head.
C19_EmptyQueueIneligible ==
    \A p \in Pods :
        (last[p].seen /\ (\/ PlainlyIneligible(last[p].snapshot)
                          \/ /\ ~last[p].snapshot.initializers.nil
                             /\ last[p].snapshot.initializers.pending.elems = <<>>)) =>
            /\ last[p].result = "skipped"
            /\ ~last[p].panic
            /\ running
            /\ last[p].apiCalls = 0
            /\ last[p].origAfter = last[p].snapshot
            /\ api[p] = last[p].snapshot

----------------------------------------------------------------------------
(* Progress, under fair delivery of the informer's events and Patch requests *)
(* that succeed: no clone, serialization or diff failure, no rejection, no   *)
(* process exit                                                              *)

LiveNext ==
    \/ \E inits \in InitializerChoices : CreatePod("p1", inits)
    \/ OtherInitializer("p1")
    \/ OnAdd("p1", FALSE, "none")
    \/ PatchReturn(TRUE)

LiveSpec ==
    /\ Init
    /\ [][LiveNext]_vars
    /\ WF_vars(OtherInitializer("p1"))
    /\ WF_vars(OnAdd("p1", FALSE, "none"))
    /\ WF_vars(PatchReturn(TRUE))

\* the handler skipped p while another initializer was ahead of this component,
\* and this component's name has since reached index 0 of the stored queue
SkippedNowAtHead(p) ==
    /\ last[p].result = "skipped"
    /\ Len(last[p].snapshot.initializers.pending.elems) > 1
    /\ Head(last[p].snapshot.initializers.pending.elems) = otherInitializer
    /\ ~FailsGate(api[p])

\* C10: an object skipped because another initializer was ahead of this
\* component is processed later: once this component's name has reached
\* index 0, the handler eventually receives the object again, mutates it and
\* removes its own entry.
C10_SkippedEventuallyInitialized ==
    \A p \in Pods :
        SkippedNowAtHead(p) ~> (hist[p].patched >= 1 /\ FailsGate(api[p]))

====
